---- MODULE Spec2Model ----
(***************************************************************************)
(* Model of the two weather dashboards of the repository:                  *)
(*   weatherproject.py  - the Streamlit dashboard (script runs of main())  *)
(*   whetherproject.py  - the command line script                          *)
(* City names are sequences of one-character strings, so that strip() and  *)
(* the per-character validation of main() are computed, not assumed.       *)
(***************************************************************************)
EXTENDS Integers, Sequences, FiniteSets, TLC

VARIABLES
    prog,           \* which program this behaviour is an execution of
    apiKey,         \* os.getenv("OPENWEATHER_API_KEY") is set
    keyIdentity,    \* Streamlit build: the text_input keeps its state when its `value` changes
    clock,          \* seconds since the server started
    session_city,   \* st.session_state.city (NoCity: not in session_state)
    widgetText,     \* value held by the text_input widget (NoCity: never rendered)
    widgetDefault,  \* the `value` the text_input was created with
    weatherCache,   \* st.cache_data store of fetch_weather_data
    forecastCache,  \* st.cache_data store of fetch_forecast_data
    pc,             \* position of the current script run / of the CLI script
    pressed,        \* the widget interaction that triggered the run
    rerunFor,       \* the Quick Access city whose st.rerun() started this run
    city,           \* local `city` of main() / global CITY of the CLI script
    weather_data,   \* local of main() / current_raw of the CLI script
    forecast_data,  \* local of main() / forecast_raw of the CLI script
    http,           \* GET requests issued in this run, per endpoint
    hits,           \* fetchers served from the cache in this run
    messages,       \* user-visible error/warning messages of this run
    rendered,       \* elements / artifacts produced by this run
    metrics,        \* st.metric calls of display_forecast, in order
    frames,         \* CLI script: current_df and forecast_df are not None
    trace           \* steps executed by this run, in order

vars == <<prog, apiKey, keyIdentity, clock, session_city, widgetText, widgetDefault,
          weatherCache, forecastCache, pc, pressed, rerunFor, city, weather_data,
          forecast_data, http, hits, messages, rendered, metrics, frames, trace>>

----------------------------------------------------------------------------
(* Bounds of the model *)

\* longest free-form forecast list given to display_forecast
MaxItems == 3
\* number of clock advances in a behaviour
MaxTicks == 2
\* seconds per clock advance
TickSeconds == 300

----------------------------------------------------------------------------
(* Program constants *)

CACHE_TTL == 600
FORECAST_CNT == 40
MAX_COLS == 5
SECONDS_PER_DAY == 86400
INTERVAL_SECONDS == 10800

None == "None"
NoCity == <<"<unset>">>

London == <<"L", "o", "n", "d", "o", "n">>
NewYork == <<"N", "e", "w", " ", "Y", "o", "r", "k">>
Tokyo == <<"T", "o", "k", "y", "o">>
Paris == <<"P", "a", "r", "i", "s">>
Sydney == <<"S", "y", "d", "n", "e", "y">>
DEFAULT_CITIES == {London, NewYork, Tokyo, Paris, Sydney}

Letters == {"L", "o", "n", "d", "N", "e", "w", "Y", "r", "k", "T", "y",
            "P", "a", "i", "s", "S"}
Whitespace == {" "}
Punctuation == {"-", "'", ",", "."}

\* str.isalpha / str.isspace on one character
IsAlpha(c) == c \in Letters
IsSpace(c) == c \in Whitespace

\* str.strip(): drop leading and trailing whitespace
RECURSIVE LStrip(_)
LStrip(s) == IF s # <<>> /\ IsSpace(Head(s)) THEN LStrip(Tail(s)) ELSE s

RECURSIVE RStrip(_)
RStrip(s) ==
    IF s # <<>> /\ IsSpace(s[Len(s)]) THEN RStrip(SubSeq(s, 1, Len(s) - 1)) ELSE s

Strip(s) == RStrip(LStrip(s))

\* all(c.isalpha() or c.isspace() or c in "-',." for c in city)
ValidChars(s) ==
    \A i \in 1..Len(s) : IsAlpha(s[i]) \/ IsSpace(s[i]) \/ s[i] \in Punctuation

\* the texts a user types in the model: blank, padded valid, invalid
TypedTexts == {<<" ">>, <<" ">> \o London \o <<" ">>, <<"L", "7">>}

\* the Quick Access buttons a user presses in the model
QuickChoices == {Paris}

----------------------------------------------------------------------------
(* display_forecast *)

\* datetime.fromtimestamp(dt).strftime('%Y-%m-%d'): the calendar day of dt
DateOf(dt) == dt \div SECONDS_PER_DAY

\* strptime(date, '%Y-%m-%d').strftime('%a'): 0 = Mon .. 6 = Sun (day 0 is a Thursday)
DayName(date) == (date + 3) % 7

\* variant: a new bucket whenever the date differs from the last bucket's date
AppendToLastBucket(days, item) ==
    IF days # <<>> /\ days[Len(days)].date = DateOf(item.dt)
    THEN [days EXCEPT ![Len(days)].items = Append(@, item)]
    ELSE Append(days, [date |-> DateOf(item.dt), items |-> <<item>>])

\* forecast_days after the loop `forecast_days.setdefault(date, []).append(item)`:
\* the buckets in insertion order, each <<date, items>>
AppendToBucket(days, item) ==
    LET found == {k \in 1..Len(days) : days[k].date = DateOf(item.dt)}
    IN  IF found # {}
        THEN [days EXCEPT ![CHOOSE k \in found : TRUE].items = Append(@, item)]
        ELSE Append(days, [date |-> DateOf(item.dt), items |-> <<item>>])

\* the loop over forecast_list from item i on; forecast_days is built item by
\* item (its length is read at every iteration so that it is evaluated there)
RECURSIVE GroupFrom(_, _, _)
GroupFrom(list, i, days) ==
    IF Len(days) <= Len(list) /\ i > Len(list) THEN days
    ELSE GroupFrom(list, i + 1, AppendToBucket(days, list[i]))

ForecastDays(list) == GroupFrom(list, 1, <<>>)

RECURSIVE SumTemp(_, _)
SumTemp(items, i) == IF i > Len(items) THEN 0 ELSE items[i].temp + SumTemp(items, i + 1)

\* f"{avg_temp:.1f}" of sum/len, temperatures in tenths of a degree
AvgTenths(items) ==
    LET s == SumTemp(items, 1)
        n == Len(items)
    IN  (2 * s + n) \div (2 * n)

\* conditions.count(c)
CountOf(items, c) == Cardinality({k \in 1..Len(items) : items[k].cond = c})

\* max(set(conditions), key=conditions.count): the iteration order of a set of
\* strings is not fixed, so any condition of maximal count can be the result
Modes(items) ==
    LET cs == {items[k].cond : k \in 1..Len(items)}
    IN  {c \in cs : \A d \in cs : CountOf(items, d) <= CountOf(items, c)}

\* cols = st.columns(min(5, len(forecast_days)))
NumCols(days) == IF Len(days) < MAX_COLS THEN Len(days) ELSE MAX_COLS

\* with cols[i % len(cols)]  (i counted from 0)
ColumnOf(i, ncols) == i % ncols

\* the st.metric call for bucket k (counted from 1) showing condition c
Metric(days, k, c) ==
    [col |-> ColumnOf(k - 1, NumCols(days)),
     date |-> days[k].date,
     day |-> DayName(days[k].date),
     avg |-> AvgTenths(days[k].items),
     cond |-> c]

\* every sequence of st.metric calls the loop over forecast_days.items() can make
RECURSIVE DisplaysFrom(_, _)
DisplaysFrom(days, k) ==
    IF k > Len(days) THEN {<<>>}
    ELSE {<<Metric(days, k, c)>> \o rest :
            c \in Modes(days[k].items), rest \in DisplaysFrom(days, k + 1)}

Displays(list) == DisplaysFrom(ForecastDays(list), 1)

\* st.columns(0) raises StreamlitAPIException
ColumnsRaise(list) == NumCols(ForecastDays(list)) = 0

\* a forecast response: n consecutive 3-hour intervals, the first in slot `first`
\* of day 0, temperatures and conditions following pattern `pat`
Conditions == <<"clear", "clouds", "rain">>
ApiForecast(first, n, pat) ==
    [i \in 1..n |->
        [dt |-> (first + i - 1) * INTERVAL_SECONDS,
         temp |-> 150 + ((i * (pat + 2)) % 7) * 10,
         cond |-> Conditions[((i \div (pat + 1)) % 3) + 1]]]

NoForecast == [ok |-> FALSE, list |-> <<>>]
ForecastJson(list) == [ok |-> TRUE, list |-> list]

\* the forecast responses of the dashboard model: an empty list and a full list
\* starting at noon (6 calendar dates)
SampleForecasts == {ApiForecast(0, 0, 0), ApiForecast(4, FORECAST_CNT, 4)}

InTrace(step) == \E i \in 1..Len(trace) : trace[i] = step

----------------------------------------------------------------------------
(* State shared by the runs of the Streamlit dashboard *)

NoPress == [kind |-> "none", city |-> NoCity]
GetPress == [kind |-> "get", city |-> NoCity]
QuickPress(q) == [kind |-> "quick", city |-> q]

NoRequests == [weather |-> 0, forecast |-> 0]
EmptyCache == [c \in {} |-> None]

\* variant: an entry is served whatever its age
CacheFreshForever(cache, c) == c \in DOMAIN cache

\* @st.cache_data(ttl=CACHE_TTL): an entry is served while younger than the TTL
CacheFresh(cache, c) == c \in DOMAIN cache /\ clock - cache[c].at < CACHE_TTL

CacheStore(cache, c, v) ==
    [k \in DOMAIN cache \cup {c} |-> IF k = c THEN [at |-> clock, val |-> v] ELSE cache[k]]

\* a new script run starts: every local of main() is fresh
NewRun(p, rf) ==
    /\ pc' = "sidebar"
    /\ pressed' = p
    /\ rerunFor' = rf
    /\ city' = NoCity
    /\ weather_data' = None
    /\ forecast_data' = NoForecast
    /\ http' = NoRequests
    /\ hits' = {}
    /\ messages' = {}
    /\ rendered' = {}
    /\ metrics' = <<>>
    /\ trace' = <<>>

serverVars == <<prog, apiKey, keyIdentity, clock, weatherCache, forecastCache, frames>>
widgetVars == <<widgetText, widgetDefault>>

InitDashboard ==
    /\ prog = "streamlit"
    /\ apiKey \in BOOLEAN
    /\ keyIdentity \in BOOLEAN
    /\ clock = 0
    /\ session_city = NoCity
    /\ widgetText = NoCity
    /\ widgetDefault = NoCity
    /\ weatherCache = EmptyCache
    /\ forecastCache = EmptyCache
    /\ pc = "start"
    /\ pressed = NoPress
    /\ rerunFor = NoCity
    /\ city = NoCity
    /\ weather_data = None
    /\ forecast_data = NoForecast
    /\ http = NoRequests
    /\ hits = {}
    /\ messages = {}
    /\ rendered = {}
    /\ metrics = <<>>
    /\ frames = FALSE
    /\ trace = <<>>

BetweenRuns == prog = "streamlit" /\ pc \in {"start", "done"}

\* time passes between two runs
Tick ==
    /\ BetweenRuns
    /\ clock < MaxTicks * TickSeconds
    /\ clock' = clock + TickSeconds
    /\ UNCHANGED <<prog, apiKey, keyIdentity, session_city, widgetText, widgetDefault,
                   weatherCache, forecastCache, pc, pressed, rerunFor, city,
                   weather_data, forecast_data, http, hits, messages, rendered,
                   metrics, frames, trace>>

\* load_dotenv() at the top of the script: a key added to .env is in the
\* environment from the next run on (and never leaves it)
LoadDotenv ==
    /\ BetweenRuns
    /\ ~apiKey
    /\ apiKey' = TRUE
    /\ UNCHANGED <<prog, keyIdentity, clock, session_city, widgetText, widgetDefault,
                   weatherCache, forecastCache, pc, pressed, rerunFor, city,
                   weather_data, forecast_data, http, hits, messages, rendered,
                   metrics, frames, trace>>

\* the browser opens the page: the first run of the session
StFirstLoad ==
    /\ prog = "streamlit" /\ pc = "start"
    /\ NewRun(NoPress, NoCity)
    /\ UNCHANGED <<serverVars, session_city, widgetVars>>

\* the user edits the text input: the widget holds the new text, the script reruns
StTypeText(t) ==
    /\ prog = "streamlit" /\ pc = "done"
    /\ t # widgetText
    /\ widgetText' = t
    /\ NewRun(NoPress, NoCity)
    /\ UNCHANGED <<serverVars, session_city, widgetDefault>>

\* the user presses "Get Weather"
StPressGet ==
    /\ prog = "streamlit" /\ pc = "done"
    /\ NewRun(GetPress, NoCity)
    /\ UNCHANGED <<serverVars, session_city, widgetVars>>

\* the user presses the Quick Access button of city q
StPressQuick(q) ==
    /\ prog = "streamlit" /\ pc = "done"
    /\ NewRun(QuickPress(q), NoCity)
    /\ UNCHANGED <<serverVars, session_city, widgetVars>>

----------------------------------------------------------------------------
(* One script run of main() *)

runLocals == <<city, weather_data, forecast_data, http, hits, messages, rendered,
               metrics, trace>>

\* sidebar loop, a Quick Access button was pressed:
\* st.session_state.city = quick_city; st.rerun()
StQuickAccess ==
    /\ prog = "streamlit" /\ pc = "sidebar"
    /\ pressed.kind = "quick"
    /\ session_city' = pressed.city
    /\ pc' = "rerun"
    /\ UNCHANGED <<serverVars, widgetVars, pressed, rerunFor, runLocals>>

\* st.rerun(): the run is abandoned and the script starts again, no button pressed
StRerun ==
    /\ prog = "streamlit" /\ pc = "rerun"
    /\ NewRun(NoPress, pressed.city)
    /\ UNCHANGED <<serverVars, session_city, widgetVars>>

\* what st.text_input returns: the widget's own text, or `value` when the widget
\* is new (first render, or its identity changed with `value`)
TextInput(value) ==
    IF widgetText = NoCity \/ (~keyIdentity /\ widgetDefault # value)
    THEN value
    ELSE widgetText

\* st.button("Get Weather", ...) or city != st.session_state.city
Triggered(c, sc) == pressed.kind = "get" \/ c # sc

\* no Quick Access button pressed: session default, text input and the trigger
StCityInput ==
    /\ prog = "streamlit" /\ pc = "sidebar"
    /\ pressed.kind # "quick"
    /\ LET sc == IF session_city = NoCity THEN London ELSE session_city
           txt == TextInput(sc)
       IN  /\ session_city' = sc
           /\ widgetText' = txt
           /\ widgetDefault' = IF keyIdentity THEN widgetDefault ELSE sc
           /\ city' = Strip(txt)
           /\ IF Triggered(Strip(txt), sc)
              THEN pc' = "validate" /\ trace' = <<"trigger">>
              ELSE pc' = "done" /\ trace' = <<>>
    /\ UNCHANGED <<serverVars, pressed, rerunFor, weather_data, forecast_data, http,
                   hits, messages, rendered, metrics>>

\* variant: only the emptiness check
StValidateEmptyOnly ==
    /\ prog = "streamlit" /\ pc = "validate"
    /\ IF city = <<>>
       THEN /\ messages' = messages \cup {"warn_empty"}
            /\ pc' = "done"
       ELSE /\ messages' = messages
            /\ pc' = "fetch_weather"
    /\ UNCHANGED <<prog, apiKey, keyIdentity, clock, weatherCache, forecastCache, frames,
                   session_city, widgetText, widgetDefault, pressed, rerunFor, city,
                   weather_data, forecast_data, http, hits, rendered, metrics, trace>>

\* the two checks of the city name, each ending the run with st.stop()
StValidate ==
    /\ prog = "streamlit" /\ pc = "validate"
    /\ IF city = <<>>
       THEN /\ messages' = messages \cup {"warn_empty"}
            /\ pc' = "done"
       ELSE IF ~ValidChars(city)
       THEN /\ messages' = messages \cup {"err_invalid"}
            /\ pc' = "done"
       ELSE /\ messages' = messages
            /\ pc' = "fetch_weather"
    /\ UNCHANGED <<serverVars, session_city, widgetVars, pressed, rerunFor, city,
                   weather_data, forecast_data, http, hits, rendered, metrics, trace>>

\* what a GET request can come to: a 200 response with JSON, HTTP 404, or any
\* other failure (another status, a timeout, no network, a body that is no JSON)
HttpOutcomes == {"ok", "404", "fail"}

\* the body of get_api_key() would st.stop()
KeyMissing == ~apiKey

\* fetch_weather_data(city), served by st.cache_data: the stored value is
\* returned and the st.warning recorded with a stored None is replayed
StFetchWeatherCached ==
    /\ prog = "streamlit" /\ pc = "fetch_weather"
    /\ CacheFresh(weatherCache, city)
    /\ weather_data' = weatherCache[city].val
    /\ hits' = hits \cup {"weather"}
    /\ messages' = IF weatherCache[city].val = None
                   THEN messages \cup {"warn_404"} ELSE messages
    /\ trace' = Append(trace, "fetch_weather")
    /\ pc' = "fetch_forecast"
    /\ UNCHANGED <<serverVars, session_city, widgetVars, pressed, rerunFor, city,
                   forecast_data, http, rendered, metrics>>

\* variant: HTTP 404 returns None without the st.warning
StFetchWeatherSilent404(o) ==
    /\ prog = "streamlit" /\ pc = "fetch_weather"
    /\ ~CacheFresh(weatherCache, city)
    /\ trace' = Append(trace, "fetch_weather")
    /\ IF KeyMissing
       THEN /\ messages' = messages \cup {"err_apikey"}
            /\ pc' = "done"
            /\ UNCHANGED <<weather_data, http, weatherCache>>
       ELSE /\ http' = [http EXCEPT !.weather = @ + 1]
            /\ CASE o = "ok" ->
                      /\ weather_data' = "ok"
                      /\ weatherCache' = CacheStore(weatherCache, city, "ok")
                      /\ messages' = messages
                      /\ pc' = "fetch_forecast"
                 [] o = "404" ->
                      /\ weather_data' = None
                      /\ weatherCache' = CacheStore(weatherCache, city, None)
                      /\ messages' = messages
                      /\ pc' = "fetch_forecast"
                 [] OTHER ->
                      /\ messages' = messages \cup {"err_unexpected"}
                      /\ pc' = "done"
                      /\ UNCHANGED <<weather_data, weatherCache>>
    /\ UNCHANGED <<prog, apiKey, keyIdentity, clock, forecastCache, frames,
                   session_city, widgetText, widgetDefault, pressed, rerunFor, city,
                   forecast_data, hits, rendered, metrics>>

\* fetch_weather_data(city), body executed with outcome o of the GET request
StFetchWeather(o) ==
    /\ prog = "streamlit" /\ pc = "fetch_weather"
    /\ ~CacheFresh(weatherCache, city)
    /\ trace' = Append(trace, "fetch_weather")
    /\ IF KeyMissing
       THEN \* get_api_key(): st.error, st.stop()
            /\ messages' = messages \cup {"err_apikey"}
            /\ pc' = "done"
            /\ UNCHANGED <<weather_data, http, weatherCache>>
       ELSE /\ http' = [http EXCEPT !.weather = @ + 1]
            /\ CASE o = "ok" ->
                      /\ weather_data' = "ok"
                      /\ weatherCache' = CacheStore(weatherCache, city, "ok")
                      /\ messages' = messages
                      /\ pc' = "fetch_forecast"
                 [] o = "404" ->
                      /\ weather_data' = None
                      /\ weatherCache' = CacheStore(weatherCache, city, None)
                      /\ messages' = messages \cup {"warn_404"}
                      /\ pc' = "fetch_forecast"
                 [] OTHER ->
                      \* except Exception: st.error, st.stop(); nothing is stored
                      /\ messages' = messages \cup {"err_unexpected"}
                      /\ pc' = "done"
                      /\ UNCHANGED <<weather_data, weatherCache>>
    /\ UNCHANGED <<prog, apiKey, keyIdentity, clock, forecastCache, frames,
                   session_city, widgetVars, pressed, rerunFor, city, forecast_data,
                   hits, rendered, metrics>>

\* fetch_forecast_data(city), served by st.cache_data
StFetchForecastCached ==
    /\ prog = "streamlit" /\ pc = "fetch_forecast"
    /\ CacheFresh(forecastCache, city)
    /\ forecast_data' = forecastCache[city].val
    /\ hits' = hits \cup {"forecast"}
    /\ messages' = IF ~forecastCache[city].val.ok
                   THEN messages \cup {"warn_forecast"} ELSE messages
    /\ trace' = Append(trace, "fetch_forecast")
    /\ pc' = "render"
    /\ UNCHANGED <<serverVars, session_city, widgetVars, pressed, rerunFor, city,
                   weather_data, http, rendered, metrics>>

\* variant: a failed forecast request is issued again
StFetchForecastRetry(o, fl) ==
    /\ prog = "streamlit" /\ pc = "fetch_forecast"
    /\ ~CacheFresh(forecastCache, city)
    /\ ~KeyMissing
    /\ http' = [http EXCEPT !.forecast = @ + 1]
    /\ IF o = "ok"
       THEN /\ forecast_data' = ForecastJson(fl)
            /\ forecastCache' = CacheStore(forecastCache, city, ForecastJson(fl))
            /\ trace' = Append(trace, "fetch_forecast")
            /\ pc' = "render"
       ELSE /\ pc' = "fetch_forecast"
            /\ UNCHANGED <<forecast_data, forecastCache, trace>>
    /\ UNCHANGED <<prog, apiKey, keyIdentity, clock, weatherCache, frames,
                   session_city, widgetText, widgetDefault, pressed, rerunFor, city,
                   weather_data, hits, messages, rendered, metrics>>

\* fetch_forecast_data(city), body executed: the GET request ends with outcome o
\* and, when it is a 200 response, carries the forecast list fl
StFetchForecast(o, fl) ==
    /\ prog = "streamlit" /\ pc = "fetch_forecast"
    /\ ~CacheFresh(forecastCache, city)
    /\ trace' = Append(trace, "fetch_forecast")
    /\ IF KeyMissing
       THEN /\ messages' = messages \cup {"err_apikey"}
            /\ pc' = "done"
            /\ UNCHANGED <<forecast_data, http, forecastCache>>
       ELSE /\ http' = [http EXCEPT !.forecast = @ + 1]
            /\ pc' = "render"
            /\ IF o = "ok"
               THEN /\ forecast_data' = ForecastJson(fl)
                    /\ forecastCache' = CacheStore(forecastCache, city, ForecastJson(fl))
                    /\ messages' = messages
               ELSE \* except Exception: st.warning, return None (stored like any result)
                    /\ forecast_data' = NoForecast
                    /\ forecastCache' = CacheStore(forecastCache, city, NoForecast)
                    /\ messages' = messages \cup {"warn_forecast"}
    /\ UNCHANGED <<prog, apiKey, keyIdentity, clock, weatherCache, frames,
                   session_city, widgetVars, pressed, rerunFor, city, weather_data,
                   hits, rendered, metrics>>

\* `if weather_data:` and everything below it
StRender ==
    /\ prog = "streamlit" /\ pc = "render"
    /\ pc' = "done"
    /\ IF weather_data = None
       THEN UNCHANGED <<session_city, rendered, metrics, messages, trace>>
       ELSE /\ session_city' = city
            /\ trace' = Append(trace, "render")
            /\ IF ~forecast_data.ok
               THEN /\ rendered' = {"card", "charts", "download"}
                    /\ UNCHANGED <<metrics, messages>>
               ELSE IF ColumnsRaise(forecast_data.list)
               THEN \* the exception leaves main(); Streamlit shows it on the page
                    /\ rendered' = {"card"}
                    /\ messages' = messages \cup {"exception"}
                    /\ UNCHANGED metrics
               ELSE /\ \E m \in Displays(forecast_data.list) : metrics' = m
                    /\ rendered' = {"card", "forecast", "charts", "download"}
                    /\ UNCHANGED messages
    /\ UNCHANGED <<serverVars, widgetVars, pressed, rerunFor, city, weather_data,
                   forecast_data, http, hits>>

DashboardNext ==
    \/ Tick
    \/ LoadDotenv
    \/ StFirstLoad
    \/ \E t \in TypedTexts : StTypeText(t)
    \/ StPressGet
    \/ \E q \in QuickChoices : StPressQuick(q)
    \/ StQuickAccess
    \/ StRerun
    \/ StCityInput
    \/ StValidate
    \/ StFetchWeatherCached
    \/ \E o \in HttpOutcomes : StFetchWeather(o)
    \/ StFetchForecastCached
    \/ \E o \in HttpOutcomes, fl \in SampleForecasts : StFetchForecast(o, fl)
    \/ StRender

----------------------------------------------------------------------------
(* The command line script whetherproject.py *)

\* the texts typed at the "Enter City Name: " prompt in the model
CliInputs == TypedTexts \cup {Paris}

InitCli ==
    /\ prog = "cli"
    /\ apiKey \in BOOLEAN
    /\ keyIdentity = FALSE
    /\ clock = 0
    /\ session_city = NoCity
    /\ widgetText = NoCity
    /\ widgetDefault = NoCity
    /\ weatherCache = EmptyCache
    /\ forecastCache = EmptyCache
    /\ pc = "cli_start"
    /\ pressed = NoPress
    /\ rerunFor = NoCity
    /\ city = NoCity
    /\ weather_data = None
    /\ forecast_data = NoForecast
    /\ http = NoRequests
    /\ hits = {}
    /\ messages = {}
    /\ rendered = {}
    /\ metrics = <<>>
    /\ frames = FALSE
    /\ trace = <<>>

cliFixed == <<prog, apiKey, keyIdentity, clock, session_city, widgetText, widgetDefault,
              weatherCache, forecastCache, pressed, rerunFor, hits, metrics>>

\* CITY = input("Enter City Name: ").strip()
CliInput(t) ==
    /\ prog = "cli" /\ pc = "cli_start"
    /\ city' = Strip(t)
    /\ pc' = "cli_fetch_current"
    /\ UNCHANGED <<cliFixed, weather_data, forecast_data, http, messages, rendered,
                   frames, trace>>

\* get_weather_data(), first request: requests.get(current_url) with outcome o
\* (never a 200 response when API_KEY is None: the URL then carries appid=None);
\* raise_for_status() makes of every failure a RequestException: return None, None
CliRequestCurrent(o) ==
    /\ prog = "cli" /\ pc = "cli_fetch_current"
    /\ apiKey \/ o # "ok"
    /\ http' = [http EXCEPT !.weather = @ + 1]
    /\ trace' = Append(trace, "fetch")
    /\ IF o = "ok"
       THEN /\ weather_data' = "ok"
            /\ pc' = "cli_fetch_forecast"
            /\ UNCHANGED <<forecast_data, messages>>
       ELSE /\ weather_data' = None
            /\ forecast_data' = NoForecast
            /\ messages' = messages \cup {"err_fetch"}
            /\ pc' = "cli_main"
    /\ UNCHANGED <<cliFixed, city, rendered, frames>>

\* variant: a failed forecast request keeps the current data: (current, None)
CliRequestForecastKeepsCurrent(o, fl) ==
    /\ prog = "cli" /\ pc = "cli_fetch_forecast"
    /\ apiKey \/ o # "ok"
    /\ http' = [http EXCEPT !.forecast = @ + 1]
    /\ pc' = "cli_main"
    /\ IF o = "ok"
       THEN /\ forecast_data' = ForecastJson(fl)
            /\ UNCHANGED <<weather_data, messages>>
       ELSE /\ forecast_data' = NoForecast
            /\ messages' = messages \cup {"err_fetch"}
            /\ UNCHANGED weather_data
    /\ UNCHANGED <<cliFixed, city, rendered, frames, trace>>

\* get_weather_data(), second request: requests.get(forecast_url)
CliRequestForecast(o, fl) ==
    /\ prog = "cli" /\ pc = "cli_fetch_forecast"
    /\ apiKey \/ o # "ok"
    /\ http' = [http EXCEPT !.forecast = @ + 1]
    /\ pc' = "cli_main"
    /\ IF o = "ok"
       THEN /\ forecast_data' = ForecastJson(fl)
            /\ UNCHANGED <<weather_data, messages>>
       ELSE /\ weather_data' = None
            /\ forecast_data' = NoForecast
            /\ messages' = messages \cup {"err_fetch"}
    /\ UNCHANGED <<cliFixed, city, rendered, frames, trace>>

\* `if current_raw and forecast_raw:` is false: nothing but the closing print
CliSkip ==
    /\ prog = "cli" /\ pc = "cli_main"
    /\ ~(weather_data # None /\ forecast_data.ok)
    /\ pc' = "cli_end"
    /\ UNCHANGED <<cliFixed, city, weather_data, forecast_data, http, messages,
                   rendered, frames, trace>>

\* variant: the result of process_data is not checked before plotting
CliProcessUnchecked(wellFormed) ==
    /\ prog = "cli" /\ pc = "cli_main"
    /\ weather_data # None /\ forecast_data.ok
    /\ trace' = Append(trace, "transform")
    /\ frames' = wellFormed
    /\ messages' = IF wellFormed THEN messages ELSE messages \cup {"err_process"}
    /\ pc' = "cli_visualize"
    /\ UNCHANGED <<cliFixed, city, weather_data, forecast_data, http, rendered>>

\* process_data(current_raw, forecast_raw): two data frames, or (None, None)
\* after "Data processing failed" when the JSON lacks a field (wellFormed false)
CliProcess(wellFormed) ==
    /\ prog = "cli" /\ pc = "cli_main"
    /\ weather_data # None /\ forecast_data.ok
    /\ trace' = Append(trace, "transform")
    /\ IF wellFormed
       THEN /\ frames' = TRUE
            /\ pc' = "cli_visualize"
            /\ UNCHANGED messages
       ELSE /\ frames' = FALSE
            /\ messages' = messages \cup {"err_process"}
            /\ pc' = "cli_end"
    /\ UNCHANGED <<cliFixed, city, weather_data, forecast_data, http, rendered>>

\* create_visualizations(current_df, forecast_df): the figure saved as a PNG, or
\* None after "Visualization failed"; an empty forecast frame has no column to plot
CliVisualize(plotOk) ==
    /\ prog = "cli" /\ pc = "cli_visualize"
    /\ trace' = Append(trace, "render")
    /\ IF plotOk /\ forecast_data.list # <<>>
       THEN /\ rendered' = rendered \cup {"png"}
            /\ UNCHANGED messages
       ELSE /\ messages' = messages \cup {"err_visualize"}
            /\ UNCHANGED rendered
    /\ pc' = "cli_persist"
    /\ UNCHANGED <<cliFixed, city, weather_data, forecast_data, http, frames>>

\* current_df.to_csv(...); forecast_df.to_csv(...)
CliPersist ==
    /\ prog = "cli" /\ pc = "cli_persist"
    /\ trace' = Append(trace, "persist")
    /\ rendered' = rendered \cup {"csv_current", "csv_forecast"}
    /\ pc' = "cli_end"
    /\ UNCHANGED <<cliFixed, city, weather_data, forecast_data, http, messages, frames>>

CliNext ==
    \/ \E t \in CliInputs : CliInput(t)
    \/ \E o \in HttpOutcomes : CliRequestCurrent(o)
    \/ \E o \in HttpOutcomes, fl \in SampleForecasts : CliRequestForecast(o, fl)
    \/ CliSkip
    \/ \E wellFormed \in BOOLEAN : CliProcess(wellFormed)
    \/ \E plotOk \in BOOLEAN : CliVisualize(plotOk)
    \/ CliPersist

----------------------------------------------------------------------------
(* Specifications *)

\* one behaviour is the life of one dashboard server, or one execution of the
\* command line script
Init == InitDashboard \/ InitCli
Next == DashboardNext \/ CliNext
Spec == Init /\ [][Next]_vars

\* display_forecast on its own: main() about to render, for bounded forecast lists
ItemSamples ==
    [dt : {3 * INTERVAL_SECONDS, 7 * INTERVAL_SECONDS, 8 * INTERVAL_SECONDS},
     temp : {100, 215}, cond : {"clear", "rain"}]
FreeLists == UNION {[1..n -> ItemSamples] : n \in 0..MaxItems}
ApiLists == {ApiForecast(first, n, pat) : first \in 0..7, n \in 0..FORECAST_CNT, pat \in 0..1}

InitForecast ==
    /\ prog = "streamlit"
    /\ apiKey = TRUE
    /\ keyIdentity = FALSE
    /\ clock = 0
    /\ session_city = London
    /\ widgetText = London
    /\ widgetDefault = London
    /\ weatherCache = EmptyCache
    /\ forecastCache = EmptyCache
    /\ pc = "render"
    /\ pressed = GetPress
    /\ rerunFor = NoCity
    /\ city = London
    /\ weather_data = "ok"
    /\ \E fl \in FreeLists \cup ApiLists : forecast_data = ForecastJson(fl)
    /\ http = [weather |-> 1, forecast |-> 1]
    /\ hits = {}
    /\ messages = {}
    /\ rendered = {}
    /\ metrics = <<>>
    /\ frames = FALSE
    /\ trace = <<"trigger", "fetch_weather", "fetch_forecast">>

SpecForecast == InitForecast /\ [][StRender]_vars

----------------------------------------------------------------------------
(* Properties *)

RunEnded == pc \in {"done", "cli_end"}
ChartProduced == "charts" \in rendered \/ "png" \in rendered
MessageShown == messages # {}

\* C1 as stated: every run of either script ends having produced a rendered
\* chart or at least one user-visible error/warning message.
C1_EveryRunChartOrMessage == RunEnded => (ChartProduced \/ MessageShown)

\* C1, amended: every execution of the CLI script, and every dashboard run in
\* which the fetch is triggered ("Get Weather" pressed, or the entered city
\* differs from st.session_state.city), ends with a chart or a message; a
\* dashboard run that is not triggered ends with neither.
C1_TriggeredRunChartOrMessage ==
    /\ pc = "cli_end" => (ChartProduced \/ MessageShown)
    /\ (prog = "streamlit" /\ pc = "done" /\ InTrace("trigger"))
          => (ChartProduced \/ MessageShown)
    /\ (prog = "streamlit" /\ pc = "done" /\ ~InTrace("trigger"))
          => (rendered = {} /\ messages = {})

\* a triggered dashboard run without an API key ended with the key message only
C1_Witness ==
    /\ prog = "streamlit" /\ pc = "done" /\ InTrace("trigger")
    /\ ~apiKey /\ messages = {"err_apikey"} /\ rendered = {}

Pipeline == <<"fetch", "transform", "render", "persist">>
CsvWritten == "csv_current" \in rendered \/ "csv_forecast" \in rendered

\* C2: in the CLI script the steps fetch, transform, render, persist run in this
\* order, each at most once; process_data runs only after both raw results were
\* returned, create_visualizations only after two data frames were returned,
\* and the CSV files are written only after create_visualizations returned.
C2_StrictlySequential ==
    prog = "cli" =>
        /\ \E n \in 0..Len(Pipeline) : trace = SubSeq(Pipeline, 1, n)
        /\ InTrace("transform") => (weather_data # None /\ forecast_data.ok)
        /\ InTrace("render") => frames
        /\ CsvWritten => (InTrace("render") /\ trace[Len(trace)] = "persist"
                          /\ pc = "cli_end")

\* a complete execution: all four steps, the PNG and both CSV files
C2_Witness ==
    /\ prog = "cli" /\ pc = "cli_end" /\ trace = Pipeline
    /\ rendered = {"png", "csv_current", "csv_forecast"}

\* C3: in a single run at most one GET request goes to the current-weather
\* endpoint and at most one to the forecast endpoint (at most two in all); a
\* failed request is not issued again.
C3_AtMostOneRequestPerEndpoint ==
    /\ http.weather <= 1
    /\ http.forecast <= 1
    /\ (prog = "cli" /\ "err_fetch" \in messages /\ http.forecast = 0)
          => pc \in {"cli_main", "cli_end"}

\* a dashboard run ended after one request per endpoint, the forecast one failed
C3_Witness ==
    /\ prog = "streamlit" /\ pc = "done"
    /\ http = [weather |-> 1, forecast |-> 1]
    /\ "warn_forecast" \in messages

\* C4: fetch_weather_data returns None on HTTP 404 (the run goes on) and stops
\* the run on any other failure (no forecast fetch, nothing rendered);
\* fetch_forecast_data returns None on a failure and the run goes on; a
\* successful request returns its JSON; get_weather_data of the CLI script
\* returns (None, None) when either request fails, never exactly one None.
C4_FetcherResults ==
    /\ prog = "streamlit" =>
        /\ "warn_404" \in messages =>
              /\ weather_data = None
              /\ pc \in {"fetch_forecast", "render", "done"}
              /\ pc = "done" => InTrace("fetch_forecast")
        /\ "err_unexpected" \in messages =>
              /\ pc = "done"
              /\ ~InTrace("fetch_forecast")
              /\ http.forecast = 0 /\ "forecast" \notin hits
              /\ rendered = {} /\ metrics = <<>>
        /\ "warn_forecast" \in messages =>
              /\ ~forecast_data.ok
              /\ pc \in {"render", "done"}
              /\ (pc = "done" /\ weather_data # None) => "charts" \in rendered
        /\ (http.weather = 1 /\ messages \cap {"warn_404", "err_unexpected"} = {})
              => weather_data = "ok"
    /\ (prog = "cli" /\ pc \in {"cli_main", "cli_visualize", "cli_persist", "cli_end"}) =>
        /\ (weather_data = None) <=> ~forecast_data.ok
        /\ "err_fetch" \in messages => (weather_data = None /\ ~forecast_data.ok)

\* the CLI script ended after its second request failed: both results are None
C4_Witness ==
    /\ prog = "cli" /\ pc = "cli_end"
    /\ http = [weather |-> 1, forecast |-> 1]
    /\ "err_fetch" \in messages /\ weather_data = None /\ ~forecast_data.ok

AllowedChars == Letters \cup Whitespace \cup Punctuation
BadCity(c) == c = <<>> \/ \E i \in 1..Len(c) : c[i] \notin AllowedChars

\* C6: a dashboard run whose city is empty after stripping or holds a character
\* other than letters, whitespace, hyphen, apostrophe, comma or period issues no
\* HTTP request and calls no fetcher, shows a warning/error message and stops,
\* and renders nothing else.
C6_NoRequestForBadCity ==
    (prog = "streamlit" /\ city # NoCity /\ BadCity(city)) =>
        /\ http = NoRequests /\ hits = {}
        /\ ~InTrace("fetch_weather") /\ ~InTrace("fetch_forecast")
        /\ rendered = {} /\ metrics = <<>>
        /\ pc \in {"validate", "done"}
        /\ pc = "done" => (messages = {"warn_empty"} \/ messages = {"err_invalid"})

\* a run for the text "L7" ended with the invalid-name message
C6_Witness ==
    /\ prog = "streamlit" /\ pc = "done"
    /\ city = <<"L", "7">> /\ messages = {"err_invalid"}

DayOf(item) == item.dt \div 86400
ItemsOfDay(list, d) == SelectSeq(list, LAMBDA x : DayOf(x) = d)
TempSum(items) ==
    LET f[k \in 0..Len(items)] == IF k = 0 THEN 0 ELSE f[k - 1] + items[k].temp
    IN  f[Len(items)]
Occurrences(items, c) == Cardinality({k \in 1..Len(items) : items[k].cond = c})

\* C7: display_forecast puts every interval of the list into exactly one bucket,
\* the bucket of its own calendar date; every bucket is non-empty; one metric is
\* displayed per bucket, computed from that bucket's intervals only: their
\* average temperature (to one decimal) and a condition of highest count.
C7_DailyBuckets ==
    (prog = "streamlit" /\ pc = "done" /\ "forecast" \in rendered) =>
        LET list == forecast_data.list
            days == ForecastDays(list)
        IN  /\ \A i \in 1..Len(list) :
                  Cardinality({k \in 1..Len(days) : days[k].date = DayOf(list[i])}) = 1
            /\ \A k \in 1..Len(days) :
                  /\ days[k].items # <<>>
                  /\ days[k].items = ItemsOfDay(list, days[k].date)
            /\ Len(metrics) = Len(days)
            /\ \A k \in 1..Len(days) :
                  LET own == ItemsOfDay(list, days[k].date)
                  IN  /\ metrics[k].date = days[k].date
                      /\ 2 * (Len(own) * metrics[k].avg - TempSum(own)) <= Len(own)
                      /\ 2 * (TempSum(own) - Len(own) * metrics[k].avg) <= Len(own)
                      /\ Occurrences(own, metrics[k].cond) > 0
                      /\ \A x \in 1..Len(own) :
                            Occurrences(own, own[x].cond) <= Occurrences(own, metrics[k].cond)

\* a list whose dates are not contiguous was displayed: two buckets, one of them
\* holding two intervals that are not neighbours in the list
C7_Witness ==
    /\ prog = "streamlit" /\ pc = "done" /\ "forecast" \in rendered
    /\ Len(forecast_data.list) = 3
    /\ DayOf(forecast_data.list[1]) = DayOf(forecast_data.list[3])
    /\ DayOf(forecast_data.list[1]) # DayOf(forecast_data.list[2])
    /\ Len(metrics) = 2

\* C8: the rerun triggered by the Quick Access button of city Q fetches and
\* displays weather for Q, and when that fetch succeeds st.session_state.city
\* is Q at the end of the rerun.
C8_QuickAccessShowsCity ==
    (prog = "streamlit" /\ pc = "done" /\ rerunFor # NoCity) =>
        /\ InTrace("fetch_weather")
        /\ city = rerunFor
        /\ weather_data # None => (session_city = rerunFor /\ "card" \in rendered)

MetricsInColumn(c) == {k \in 1..Len(metrics) : metrics[k].col = c}

\* C9: the "5-Day Forecast" section displays at most five daily metrics, at most
\* one per column, for every forecast list the API can return.
C9_AtMostFiveMetrics ==
    (prog = "streamlit" /\ pc = "done") =>
        /\ Len(metrics) <= 5
        /\ \A c \in 0..4 : Cardinality(MetricsInColumn(c)) <= 1

====
